---- MODULE Spec2Model ----
(***************************************************************************)
(* Model of GridSearch (src/project_utils.py, lines 309-373) and of the    *)
(* config loader it calls (load_configfile, lines 80-90).                  *)
(*                                                                         *)
(* Python objects are modelled as follows.                                 *)
(*   - a dict of parameters is a function from key strings to integers;    *)
(*   - dict objects live in `heap`, a function from references to dicts,   *)
(*     so that aliasing (self.parameters = parameters) is observable;      *)
(*   - the grid is the sequence of its axes in insertion order, each axis  *)
(*     a record [key, vals]; a candidate value is [isdict, val, items];    *)
(*   - self.__idx and self.__lengths are sequences aligned with the grid   *)
(*     (both dicts are built from self.grid.keys(), in the same order);    *)
(*   - an exception is an outcome of the call, recorded in `outcome`;      *)
(*   - a config file that exists and has a known extension parses to a     *)
(*     mapping (a malformed file is not modelled).                         *)
(***************************************************************************)
EXTENDS Integers, Sequences, FiniteSets, TLC

(* ---- bounds of the model ---- *)
MaxAxes == 3
MaxLen == 2
MaxExtra == 1
NumStates == 3
MaxDraws == 2
MaxEntries == 3

(* ---- the inputs ---- *)
AxisKeys == <<"a", "b", "g", "h">>

BaseKeys == {"a", "b", "x", "y", "z"}

\* The base parameters: every parameter at its default 0.
Base == [k \in BaseKeys |-> 0]

Plain(n) == [isdict |-> FALSE, val |-> n, items |-> <<>>]

Group(f) == [isdict |-> TRUE, val |-> 0, items |-> f]

\* The candidate at (0-based) position j of the axis declared under key k.
\* "a" and "b" are standalone parameters; "g" and "h" are parameter groups.
Candidate(k, j) ==
  CASE k = "a" -> Plain(j + 1)
    [] k = "b" -> Plain(10 * (j + 1))
    [] k = "g" -> IF j % 2 = 0
                  THEN Group(("x" :> (100 + j)) @@ ("y" :> (200 + j)))
                  ELSE Group("x" :> (100 + j))
    [] k = "h" -> IF j % 2 = 0
                  THEN Group(("x" :> (300 + j)) @@ ("w" :> (400 + j)))
                  ELSE Group(("y" :> (500 + j)) @@ ("b" :> (600 + j)))

Axis(k, n) == [key |-> k, vals |-> [j \in 1..n |-> Candidate(k, j - 1)]]

AxisSet == {Axis(AxisKeys[c], n) : c \in 1..Len(AxisKeys), n \in 0..MaxLen}

\* A grid is a dict: its keys are distinct, its order is insertion order.
Grids ==
  {g \in UNION {[1..n -> AxisSet] : n \in 0..MaxAxes} :
     \A p, q \in DOMAIN g : p # q => g[p].key # g[q].key}

\* What a caller may pass as `parameters` or `grid`.
Args ==
  {[type |-> "dict", ext |-> "", exists |-> TRUE],
   [type |-> "other", ext |-> "", exists |-> TRUE]}
  \cup [type : {"str"}, ext : {"json", "yaml", "txt"}, exists : BOOLEAN]

(* ---- Python helpers ---- *)
RECURSIVE Prod(_, _)
Prod(s, p) == IF p > Len(s) THEN 1 ELSE s[p] * Prod(s, p + 1)

\* math.prod
math_prod(s) == Prod(s, 1)

RECURSIVE Pow(_, _)
Pow(b, e) == IF e = 0 THEN 1 ELSE b * Pow(b, e - 1)

\* list[n] with Python's index rules: ok is FALSE where IndexError is raised.
PyIndex(list, n) ==
  IF 0 <= n /\ n < Len(list) THEN [ok |-> TRUE, v |-> list[n + 1]]
  ELSE IF n < 0 /\ -Len(list) <= n THEN [ok |-> TRUE, v |-> list[Len(list) + n + 1]]
  ELSE [ok |-> FALSE, v |-> Plain(0)]

\* A slip of SetItem: the value is stored under every key of the dict.
SetItemClobber(d, k, v) == [x \in DOMAIN d \cup {k} |-> v]

\* d[k] = v
SetItem(d, k, v) == [x \in DOMAIN d \cup {k} |-> IF x = k THEN v ELSE d[x]]

\* A slip of SetItems: the keys the group does not name go back to their
\* default.
SetItemsReset(d, v) == [x \in DOMAIN d \cup DOMAIN v |-> IF x \in DOMAIN v THEN v[x] ELSE 0]

\* A slip of SetItems: the group replaces the dict instead of updating it.
SetItemsReplace(d, v) == v

\* for kk, vv in v.items(): d[kk] = vv
SetItems(d, v) == [x \in DOMAIN d \cup DOMAIN v |-> IF x \in DOMAIN v THEN v[x] ELSE d[x]]

\* A slip of load_configfile: an unknown extension is parsed as YAML.
load_configfileLenient(path) ==
  IF ~path.exists THEN "FileNotFoundError" ELSE "none"

\* load_configfile: the exception it raises, or "none" when it returns the
\* parsed mapping.
load_configfile(path) ==
  IF ~path.exists THEN "FileNotFoundError"
  ELSE IF path.ext = "json" THEN "none"
  ELSE IF path.ext = "yaml" THEN "none"
  ELSE "RuntimeError"

\* The two isinstance chains of __init__: the exception raised by one
\* argument, or "none".
LoadArg(arg) ==
  IF arg.type = "str" THEN load_configfile(arg)
  ELSE IF arg.type = "dict" THEN "none"
  ELSE "RuntimeError"

\* self.__lengths
Lengths(g) == [p \in DOMAIN g |-> Len(g[p].vals)]

\* The caller's dict object, and the dict object a config load creates.
CallerRef == 1
LoadedRef == 2

\* self.parameters after __init__: the argument itself when it is a dict.
ParametersRef(arg) == IF arg.type = "dict" THEN CallerRef ELSE LoadedRef

\* __len__
GridLen(L) == math_prod(L)

\* self.__i as set by __iter__
IterPos == -1

\* A slip of IterIdx: the initial condition of the first axis is missing.
IterIdxNoSentinel(g) == [p \in DOMAIN g |-> 0]

\* A slip of IterIdx: the initial condition is set on the last axis.
IterIdxLastAxis(g) == [p \in DOMAIN g |-> IF p = Len(g) THEN -1 ELSE 0]

\* self.__idx as set by __iter__ (the first key exists: g is not empty).
IterIdx(g) == [p \in DOMAIN g |-> IF p = 1 THEN -1 ELSE 0]

\* A slip of UpdateIdx: the axes are walked from the last-declared one.
RECURSIVE UpdateIdxReversed(_, _, _)
UpdateIdxReversed(ix, L, p) ==
  LET r == Len(ix) + 1 - p IN
  IF p > Len(ix) THEN [idx |-> ix, t |-> TRUE]
  ELSE IF ix[r] + 1 = L[r] THEN UpdateIdxReversed([ix EXCEPT ![r] = 0], L, p + 1)
  ELSE [idx |-> [ix EXCEPT ![r] = ix[r] + 1], t |-> FALSE]

\* The index update loop of __next__, from axis p on.
RECURSIVE UpdateIdx(_, _, _)
UpdateIdx(ix, L, p) ==
  IF p > Len(ix) THEN [idx |-> ix, t |-> TRUE]
  ELSE IF ix[p] + 1 = L[p] THEN UpdateIdx([ix EXCEPT ![p] = 0], L, p + 1)
  ELSE [idx |-> [ix EXCEPT ![p] = ix[p] + 1], t |-> FALSE]

\* A slip of ApplyValue: a group value is stored under the axis key only.
ApplyValuePlainOnly(d, k, v) ==
  IF v.isdict THEN d ELSE SetItem(d, k, v.val)

\* One round of the parameter update loop: the value v of axis key k.
ApplyValue(d, k, v) ==
  IF v.isdict THEN SetItems(d, v.items) ELSE SetItem(d, k, v.val)

\* A slip of ApplyGrid: the axes are applied from the last-declared one, so
\* that the earlier-declared axis wins a collision.
RECURSIVE ApplyGridReversed(_, _, _, _)
ApplyGridReversed(d, g, ix, p) ==
  LET r == Len(g) + 1 - p IN
  IF p > Len(g) THEN [d |-> d, exc |-> "none"]
  ELSE LET e == PyIndex(g[r].vals, ix[r]) IN
       IF ~e.ok THEN [d |-> d, exc |-> "IndexError"]
       ELSE ApplyGridReversed(ApplyValue(d, g[r].key, e.v), g, ix, p + 1)

\* The parameter update loop of __next__, from axis p on; it stops at the
\* first IndexError and keeps what it has written so far.
RECURSIVE ApplyGrid(_, _, _, _)
ApplyGrid(d, g, ix, p) ==
  IF p > Len(g) THEN [d |-> d, exc |-> "none"]
  ELSE LET e == PyIndex(g[p].vals, ix[p]) IN
       IF ~e.ok THEN [d |-> d, exc |-> "IndexError"]
       ELSE ApplyGrid(ApplyValue(d, g[p].key, e.v), g, ix, p + 1)

\* A slip of NextResult: a copy of the dict is updated and handed out.
NextResultCopy(h, ref, d) == [heap |-> ((3 - ref) :> d) @@ h, ref |-> 3 - ref]

\* The pair returned by __next__ : the object handed out and the new heap.
NextResult(h, ref, d) == [heap |-> [h EXCEPT ![ref] = d], ref |-> ref]

\* A slip of NextPos: the position is returned without being advanced.
NextPosStale(n) == n

\* self.__i += 1
NextPos(n) == n + 1

(* ---- the state ---- *)
VARIABLES
  pc,          \* "start", "failed" (__init__ raised), "constructed", "iterating"
  gridArg,     \* the mapping the grid argument is, or is loaded as
  heap,        \* the dict objects
  parameters,  \* self.parameters, a reference (0: unset)
  grid,        \* self.grid
  lengths,     \* self.__lengths
  i,           \* self.__i
  idx,         \* self.__idx
  outcome,     \* the last call and its result
  produced,    \* combinations returned since the last __iter__
  stopped,     \* StopIteration was raised since the last __iter__
  held,        \* the reference the previous __next__ handed out (0: none)
  \* ReproducibleContext (src/torch_utils.py)
  rng,         \* the generator states: random, numpy, torch, each CUDA device
  seed,        \* self.seed
  device,      \* self.device
  saved,       \* self.rd_state, np_state, tr_state, cuda_state (those set)
  rpc,         \* "outside" or "inside" the with block
  draws,       \* random draws made inside the current with block
  before,      \* the generator states when the with block was entered
  \* Experiment.get_last_similar (src/project_utils.py)
  listing,     \* what os.listdir(parent) returns, in the order it returns it
  dpc,         \* "idle" or "called"
  lastSimilar  \* the result of get_last_similar

gsVars == <<pc, gridArg, heap, parameters, grid, lengths, i, idx, outcome,
            produced, stopped, held>>

rngVars == <<rng, seed, device, saved, rpc, draws, before>>

dirVars == <<listing, dpc, lastSimilar>>

vars == <<gsVars, rngVars, dirVars>>

\* A call and its result: the operation, its arguments (of __init__ only),
\* the exception raised ("none": it returned), and the pair __next__ returns.
Call(op, a, exc, ref, pos) ==
  [op |-> op, args |-> a, exc |-> exc, ref |-> ref, pos |-> pos]

Result(op, exc, ref, pos) == Call(op, <<>>, exc, ref, pos)

\* The most combinations any grid of the model has.
MaxCapacity == Pow(MaxLen, MaxAxes)

\* No ReproducibleContext is in use.
NoContext ==
  /\ rng = [rd |-> 0, np |-> 0, tr |-> 0, cuda |-> <<>>]
  /\ seed = [isNone |-> TRUE, val |-> 0]
  /\ device = "cpu:0"
  /\ saved = <<>>
  /\ rpc = "outside"
  /\ draws = 0
  /\ before = rng

\* No Experiment is in use.
NoExperiment ==
  /\ listing = <<>>
  /\ dpc = "idle"
  /\ lastSimilar = [exc |-> "none", path |-> <<>>]

\* No GridSearch is in use.
NoGridSearch ==
  /\ pc = "start"
  /\ gridArg = <<>>
  /\ heap = <<>>
  /\ parameters = 0
  /\ grid = <<>>
  /\ lengths = <<>>
  /\ i = 0
  /\ idx = <<>>
  /\ outcome = Result("none", "none", 0, -1)
  /\ produced = 0
  /\ stopped = FALSE
  /\ held = 0

Init ==
  /\ NoContext
  /\ NoExperiment
  /\ pc = "start"
  /\ gridArg \in Grids
  /\ heap = <<>>
  /\ parameters = 0
  /\ grid = <<>>
  /\ lengths = <<>>
  /\ i = 0
  /\ idx = <<>>
  /\ outcome = Result("none", "none", 0, -1)
  /\ produced = 0
  /\ stopped = FALSE
  /\ held = 0

\* GridSearch(parameters, grid) with arguments a valid for the call.
InitFails(pa, ga) ==
  /\ LoadArg(pa) # "none" \/ LoadArg(ga) # "none"
  /\ pc' = "failed"
  /\ outcome' = Call("__init__", [parameters |-> pa, grid |-> ga],
                     IF LoadArg(pa) # "none" THEN LoadArg(pa) ELSE LoadArg(ga),
                     0, -1)
  /\ heap' = IF pa.type = "dict" THEN (CallerRef :> Base) ELSE heap
  /\ UNCHANGED <<rngVars, dirVars, gridArg, parameters, grid, lengths, i, idx, produced, stopped, held>>

InitReturns(pa, ga) ==
  /\ LoadArg(pa) = "none" /\ LoadArg(ga) = "none"
  /\ pc' = "constructed"
  /\ heap' = (ParametersRef(pa) :> Base)
  /\ parameters' = ParametersRef(pa)
  /\ grid' = gridArg
  /\ lengths' = Lengths(gridArg)
  /\ outcome' = Call("__init__", [parameters |-> pa, grid |-> ga], "none", 0, -1)
  /\ UNCHANGED <<rngVars, dirVars, gridArg, i, idx, produced, stopped, held>>

Construct ==
  /\ pc = "start"
  /\ \E pa \in Args, ga \in Args : InitFails(pa, ga) \/ InitReturns(pa, ga)

\* iter(gs) on a grid with at least one axis.
Iter ==
  /\ pc \in {"constructed", "iterating"}
  /\ Len(grid) > 0
  /\ pc' = "iterating"
  /\ i' = IterPos
  /\ idx' = IterIdx(grid)
  /\ outcome' = Result("__iter__", "none", 0, -1)
  /\ produced' = 0
  /\ stopped' = FALSE
  /\ held' = 0
  /\ UNCHANGED <<rngVars, dirVars, gridArg, heap, parameters, grid, lengths>>

\* iter(gs) on a grid with no axis: list(self.grid.keys())[0] raises
\* IndexError after __i and __idx have been assigned.
IterEmpty ==
  /\ pc \in {"constructed", "iterating"}
  /\ Len(grid) = 0
  /\ pc' = "iterating"
  /\ i' = IterPos
  /\ idx' = <<>>
  /\ outcome' = Result("__iter__", "IndexError", 0, -1)
  /\ produced' = 0
  /\ stopped' = FALSE
  /\ held' = 0
  /\ UNCHANGED <<rngVars, dirVars, gridArg, heap, parameters, grid, lengths>>

\* next(gs) before any iter(gs): self.__idx does not exist.
NextUnstarted ==
  /\ pc = "constructed"
  /\ outcome' = Result("__next__", "AttributeError", 0, -1)
  /\ UNCHANGED <<rngVars, dirVars, pc, gridArg, heap, parameters, grid, lengths, i, idx,
                 produced, stopped, held>>

\* next(gs) raising StopIteration: every axis wrapped.
NextStop ==
  /\ pc = "iterating"
  /\ LET u == UpdateIdx(idx, lengths, 1) IN
       /\ u.t
       /\ idx' = u.idx
       /\ outcome' = Result("__next__", "StopIteration", 0, -1)
       /\ stopped' = TRUE
       /\ UNCHANGED <<rngVars, dirVars, pc, gridArg, heap, parameters, grid, lengths, i,
                      produced, held>>

\* next(gs) raising IndexError inside the parameter update loop.
NextError ==
  /\ pc = "iterating"
  /\ LET u == UpdateIdx(idx, lengths, 1)
         a == ApplyGrid(heap[parameters], grid, u.idx, 1) IN
       /\ ~u.t
       /\ a.exc # "none"
       /\ \A p \in DOMAIN u.idx : u.idx[p] <= lengths[p] + MaxExtra
       /\ idx' = u.idx
       /\ heap' = [heap EXCEPT ![parameters] = a.d]
       /\ outcome' = Result("__next__", a.exc, 0, -1)
       /\ UNCHANGED <<rngVars, dirVars, pc, gridArg, parameters, grid, lengths, i,
                      produced, stopped, held>>

\* next(gs) returning (self.parameters, self.__i).
NextReturns ==
  /\ pc = "iterating"
  /\ i + 1 < MaxCapacity + MaxExtra
  /\ LET u == UpdateIdx(idx, lengths, 1)
         a == ApplyGrid(heap[parameters], grid, u.idx, 1)
         r == NextResult(heap, parameters, a.d) IN
       /\ ~u.t
       /\ a.exc = "none"
       /\ idx' = u.idx
       /\ heap' = r.heap
       /\ i' = NextPos(i)
       /\ outcome' = Result("__next__", "none", r.ref, NextPos(i))
       /\ produced' = produced + 1
       /\ held' = IF outcome.op = "__next__" /\ outcome.exc = "none"
                  THEN outcome.ref ELSE 0
       /\ UNCHANGED <<rngVars, dirVars, pc, gridArg, parameters, grid, lengths, stopped>>

Next ==
  \/ Construct
  \/ Iter
  \/ IterEmpty
  \/ NextUnstarted
  \/ NextStop
  \/ NextError
  \/ NextReturns

Spec == Init /\ [][Next]_vars

(* ---- ReproducibleContext (src/torch_utils.py) ---- *)
\* A generator state is a number below NumStates; the generators are those
\* of random, numpy.random and torch, and one per CUDA device.
States == 0..(NumStates - 1)

CudaDevices == {"cuda:0", "cuda:1"}

\* self.device, that is str(torch.device(device, index))
Devices == {"cpu:0"} \cup CudaDevices

\* device.startswith('cuda')
startswith_cuda(dev) == dev \in CudaDevices

\* self.seed: None or an integer.
SeedArgs == {[isNone |-> TRUE, val |-> 0]} \cup [isNone : {FALSE}, val : {0, 1}]

RngStates == [rd : States, np : States, tr : States, cuda : [CudaDevices -> States]]

\* The state seed s puts a generator in.
Seeded(s) == s % NumStates

\* The state a generator is in after a draw from state st.
Drawn(st) == (st + 1) % NumStates

\* reproducibility(seed, device): torch.manual_seed seeds the generators of
\* all devices, the CUDA ones included.
reproducibility(r, s, dev) ==
  LET manual == [rd |-> Seeded(s), np |-> Seeded(s), tr |-> Seeded(s),
                 cuda |-> [d \in CudaDevices |-> Seeded(s)]] IN
  IF startswith_cuda(dev) THEN [manual EXCEPT !.cuda[dev] = Seeded(s)] ELSE manual

\* The attributes __enter__ assigns: rd_state, np_state, tr_state, and
\* cuda_state for a CUDA device.
SaveStates(r, sv, dev) ==
  LET cpu == [rd |-> r.rd, np |-> r.np, tr |-> r.tr] IN
  IF startswith_cuda(dev) THEN (("cuda" :> r.cuda[dev]) @@ cpu) @@ sv ELSE cpu @@ sv

\* A slip of RestoreStates: the numpy state is not restored.
RestoreStatesNoNumpy(r, sv, dev) ==
  [rd |-> sv.rd, np |-> r.np, tr |-> sv.tr,
   cuda |-> IF startswith_cuda(dev) THEN [r.cuda EXCEPT ![dev] = sv.cuda] ELSE r.cuda]

\* The generator states __exit__ sets.
RestoreStates(r, sv, dev) ==
  [rd |-> sv.rd, np |-> sv.np, tr |-> sv.tr,
   cuda |-> IF startswith_cuda(dev) THEN [r.cuda EXCEPT ![dev] = sv.cuda] ELSE r.cuda]

\* ReproducibleContext(seed, device, index), with any generator states.
InitRepro ==
  /\ NoGridSearch
  /\ NoExperiment
  /\ rng \in RngStates
  /\ seed \in SeedArgs
  /\ device \in Devices
  /\ saved = <<>>
  /\ rpc = "outside"
  /\ draws = 0
  /\ before = rng

\* __enter__
Enter ==
  /\ rpc = "outside"
  /\ rpc' = "inside"
  /\ IF seed.isNone
     THEN UNCHANGED <<rng, saved>>
     ELSE /\ saved' = SaveStates(rng, saved, device)
          /\ rng' = reproducibility(rng, seed.val, device)
  /\ draws' = 0
  /\ before' = rng
  /\ UNCHANGED <<seed, device, gsVars, dirVars>>

\* A random draw inside the with block, from one of the generators.
Draw ==
  /\ rpc = "inside"
  /\ draws < MaxDraws
  /\ \/ rng' = [rng EXCEPT !.rd = Drawn(@)]
     \/ rng' = [rng EXCEPT !.np = Drawn(@)]
     \/ rng' = [rng EXCEPT !.tr = Drawn(@)]
     \/ \E d \in CudaDevices : rng' = [rng EXCEPT !.cuda[d] = Drawn(@)]
  /\ draws' = draws + 1
  /\ UNCHANGED <<seed, device, saved, rpc, before, gsVars, dirVars>>

\* __exit__
Exit ==
  /\ rpc = "inside"
  /\ rpc' = "outside"
  /\ rng' = IF seed.isNone THEN rng ELSE RestoreStates(rng, saved, device)
  /\ UNCHANGED <<seed, device, saved, draws, before, gsVars, dirVars>>

NextRepro ==
  \/ Enter
  \/ Draw
  \/ Exit

SpecRepro == InitRepro /\ [][NextRepro]_vars

(* ---- Experiment.get_last_similar (src/project_utils.py) ---- *)
\* A file name is the sequence of its characters, a character a number; names
\* compare as Python strings do, character by character.
NameChars == {1, 2}

\* self.name
ExperimentName == <<1>>

\* The names the parent directory may hold.
EntryNames == UNION {[1..n -> NameChars] : n \in 1..2}

\* What os.listdir may return: distinct names, in any order.
Listings ==
  {l \in UNION {[1..n -> EntryNames] : n \in 0..MaxEntries} :
     \A p, q \in DOMAIN l : p # q => l[p] # l[q]}

\* d.startswith(n)
startswith(d, n) == Len(d) >= Len(n) /\ SubSeq(d, 1, Len(n)) = n

\* a < b for strings
RECURSIVE StrLess(_, _)
StrLess(a, b) ==
  IF Len(a) = 0 THEN Len(b) > 0
  ELSE IF Len(b) = 0 THEN FALSE
  ELSE IF Head(a) # Head(b) THEN Head(a) < Head(b)
  ELSE StrLess(Tail(a), Tail(b))

\* Inserts name d into the sorted list l.
RECURSIVE Insert(_, _)
Insert(l, d) ==
  IF Len(l) = 0 THEN <<d>>
  ELSE IF StrLess(d, Head(l)) THEN <<d>> \o l
  ELSE <<Head(l)>> \o Insert(Tail(l), d)

\* sorted(l): a new list, l itself is left as it is.
RECURSIVE sorted(_)
sorted(l) == IF Len(l) = 0 THEN <<>> ELSE Insert(sorted(SubSeq(l, 1, Len(l) - 1)), l[Len(l)])

\* os.path.join(os.path.dirname(self.dir), d)
JoinParent(d) == <<"parent", d>>

\* list_similar: the entries of the listing that start with self.name.
list_similar(l) == SelectSeq(l, LAMBDA d : startswith(d, ExperimentName))

\* get_last_similar: the value of sorted(dirs) is dropped, and dirs[-1] is
\* the last entry of the unsorted list (IndexError when there is none).
get_last_similar(l) ==
  LET dirs == list_similar(l)
      dropped == sorted(dirs) IN
  IF Len(dirs) = 0 THEN [exc |-> "IndexError", path |-> <<>>]
  ELSE [exc |-> "none", path |-> JoinParent(dirs[Len(dirs)])]

InitSimilar ==
  /\ NoGridSearch
  /\ NoContext
  /\ listing \in Listings
  /\ dpc = "idle"
  /\ lastSimilar = [exc |-> "none", path |-> <<>>]

GetLastSimilar ==
  /\ dpc = "idle"
  /\ dpc' = "called"
  /\ lastSimilar' = get_last_similar(listing)
  /\ UNCHANGED <<listing, gsVars, rngVars>>

NextSimilar == GetLastSimilar

SpecSimilar == InitSimilar /\ [][NextSimilar]_vars

(* ---- vocabulary of the properties ---- *)
\* The last call was a __next__ that returned a combination.
Returned == outcome.op = "__next__" /\ outcome.exc = "none"

\* Every axis has at least one candidate.
NoEmptyAxis(g) == \A p \in DOMAIN g : Len(g[p].vals) >= 1

\* L1 * ... * Lq, the product of the first q candidate-list lengths.
RECURSIVE PrefixProduct(_, _)
PrefixProduct(g, q) == IF q = 0 THEN 1 ELSE Len(g[q].vals) * PrefixProduct(g, q - 1)

Capacity(g) == PrefixProduct(g, Len(g))

\* The candidate axis p currently selects, and the keys it assigns.
Selected(p) == grid[p].vals[idx[p] + 1]

Writes(p) == IF Selected(p).isdict THEN DOMAIN Selected(p).items ELSE {grid[p].key}

ValueFor(p, k) == IF Selected(p).isdict THEN Selected(p).items[k] ELSE Selected(p).val

\* Axis p is the last-declared axis whose selected value assigns key k.
LastWriter(p, k) ==
  /\ k \in Writes(p)
  /\ \A q \in DOMAIN grid : q > p => k \notin Writes(q)

\* The dict d shows the combination the current indices select.
Shows(d) ==
  \A p \in DOMAIN grid : \A k \in Writes(p) :
    LastWriter(p, k) => k \in DOMAIN d /\ d[k] = ValueFor(p, k)

\* C1: for a grid of n >= 1 axes, each with at least one candidate, __len__
\* is the product of the candidate-list lengths, and when StopIteration is
\* first raised after an __iter__, exactly that many combinations have been
\* returned since the __iter__.
C1_LenAndCount ==
  [][(pc' \in {"constructed", "iterating"} /\ Len(grid') >= 1 /\ NoEmptyAxis(grid'))
       => /\ GridLen(lengths') = Capacity(gridArg)
          /\ (~stopped /\ stopped') => produced' = Capacity(gridArg)]_vars

C1_Witness ==
  /\ stopped
  /\ outcome.exc = "StopIteration"
  /\ Len(grid) = MaxAxes
  /\ \A p \in DOMAIN grid : Len(grid[p].vals) = MaxLen
  /\ produced = GridLen(lengths)

\* The four combinations of the scenario {a: [1, 2], b: [10, 20]}.
Scenario1 == <<[a |-> 1, b |-> 10], [a |-> 2, b |-> 10],
               [a |-> 1, b |-> 20], [a |-> 2, b |-> 20]>>

\* C2: in an enumeration that has not yet signalled termination, the
\* combination returned with position n uses on axis p the candidate at index
\* (n div (L1 * ... * L(p-1))) mod Lp; and the grid {a: [1, 2], b: [10, 20]}
\* yields (1,10), (2,10), (1,20), (2,20) in that order.
C2_MixedRadix ==
  (Returned /\ ~stopped /\ NoEmptyAxis(grid)) =>
    /\ \A p \in DOMAIN grid :
         idx[p] = (outcome.pos \div PrefixProduct(grid, p - 1)) % Len(grid[p].vals)
    /\ grid = <<Axis("a", 2), Axis("b", 2)>> =>
         /\ heap[outcome.ref]["a"] = Scenario1[outcome.pos + 1].a
         /\ heap[outcome.ref]["b"] = Scenario1[outcome.pos + 1].b

C2_Witness ==
  /\ Returned /\ ~stopped
  /\ grid = <<Axis("a", 2), Axis("b", 2)>>
  /\ outcome.pos = 2
  /\ heap[outcome.ref]["a"] = 1 /\ heap[outcome.ref]["b"] = 20

\* C3 as stated: in every returned combination, every key assigned by the
\* selected value of any axis holds that axis's selected value.
C3_EveryAxisValue ==
  Returned =>
    \A p \in DOMAIN grid : \A k \in Writes(p) :
      heap[outcome.ref][k] = ValueFor(p, k)

\* C3 amended: in every returned combination, every key assigned by the
\* selected value of an axis holds that axis's selected value, unless the
\* selected value of a later-declared axis assigns the same key.
C3_LastAxisValue == Returned => Shows(heap[outcome.ref])

C3_Witness ==
  /\ Returned
  /\ Len(grid) >= 2
  /\ \E p \in DOMAIN grid : Selected(p).isdict /\ idx[p] = 1
  /\ \E p \in DOMAIN grid : ~Selected(p).isdict /\ idx[p] = 1
  /\ \A p \in DOMAIN grid : \A k \in Writes(p) : LastWriter(p, k)

\* C4: when the selected values of two axes assign the same key, the returned
\* combination holds the value of the later-declared one; and the keys of a
\* selected group value that no later axis assigns all hold the group's
\* values in the same returned combination.
C4_LaterAxisWins ==
  Returned =>
    /\ \A p, q \in DOMAIN grid : \A k \in Writes(p) \cap Writes(q) :
         (p < q /\ LastWriter(q, k)) =>
            /\ heap[outcome.ref][k] = ValueFor(q, k)
            /\ heap[outcome.ref][k] # ValueFor(p, k)
    /\ \A p \in DOMAIN grid :
         (Selected(p).isdict /\ \A k \in Writes(p) : LastWriter(p, k)) =>
            \A k \in Writes(p) : heap[outcome.ref][k] = Selected(p).items[k]

C4_Witness ==
  /\ Returned
  /\ \E p, q \in DOMAIN grid :
       /\ p < q
       /\ Selected(p).isdict /\ Selected(q).isdict
       /\ "x" \in Writes(p) \cap Writes(q)
       /\ heap[outcome.ref]["x"] = ValueFor(q, "x")

\* C5: for a grid with no axis, __len__ is 1, __iter__ raises no error, and
\* the enumeration returns exactly one combination, equal to the base
\* parameters, before it signals termination.
C5_ZeroAxes ==
  (pc \in {"constructed", "iterating"} /\ Len(grid) = 0) =>
    /\ GridLen(lengths) = 1
    /\ outcome.op = "__iter__" => outcome.exc = "none"
    /\ stopped => (produced = 1 /\ heap[parameters] = Base)

\* C6: on a grid with at least one axis, __iter__ at any point sets the
\* position to -1 and the indices to 0 except the first axis at -1; the
\* first combination returned after it has position 0 and all indices 0, and
\* when termination is first signalled after it, L1 * ... * Ln combinations
\* have been returned since.
C6_IterResets ==
  [][/\ (outcome'.op = "__iter__" /\ Len(grid') >= 1) =>
          /\ i' = -1
          /\ idx' = [p \in DOMAIN grid' |-> IF p = 1 THEN -1 ELSE 0]
          /\ produced' = 0 /\ ~stopped'
     /\ (Returned' /\ produced = 0 /\ NoEmptyAxis(grid')) =>
          /\ outcome'.pos = 0
          /\ idx' = [p \in DOMAIN grid' |-> 0]
     /\ (~stopped /\ stopped' /\ Len(grid') >= 1 /\ NoEmptyAxis(grid')) =>
          produced' = Capacity(grid')]_vars

\* __iter__ has just reset an enumerator that had returned combinations.
C6_Witness ==
  /\ outcome.op = "__iter__" /\ outcome.exc = "none"
  /\ heap[parameters] # Base
  /\ Len(grid) >= 2
  /\ i = -1
  /\ idx = [p \in DOMAIN grid |-> IF p = 1 THEN -1 ELSE 0]

\* C7 as stated: the set of keys of the ParameterSet never changes.
C7_KeysNeverChange ==
  parameters # 0 => DOMAIN heap[parameters] = BaseKeys

\* The keys the grid may assign: its plain axis keys and its group keys.
NamedKeys(g) ==
  UNION {UNION {IF g[p].vals[j].isdict THEN DOMAIN g[p].vals[j].items ELSE {g[p].key} :
                  j \in DOMAIN g[p].vals} : p \in DOMAIN g}

\* C7 amended: every key of the base parameters remains present and no key is
\* ever removed; the set of keys never changes provided every key the grid
\* assigns is a key of the base parameters (a key the base lacks is added).
C7_KeysOnlyAdded ==
  [][parameters' # 0 =>
       /\ BaseKeys \subseteq DOMAIN heap'[parameters']
       /\ parameters # 0 => DOMAIN heap[parameters] \subseteq DOMAIN heap'[parameters']
       /\ NamedKeys(grid') \subseteq BaseKeys => DOMAIN heap'[parameters'] = BaseKeys]_vars

C7_Witness ==
  /\ Returned
  /\ \E p \in DOMAIN grid : Selected(p).isdict
  /\ NamedKeys(grid) \subseteq BaseKeys
  /\ DOMAIN heap[parameters] = BaseKeys
  /\ heap[parameters] # Base

\* C8: a __next__ that returns a combination returns the advanced position,
\* one more than before the call; the first one after __iter__ returns 0; a
\* __next__ that raises leaves the position as it was.
C8_RunningPosition ==
  [][/\ (Returned' /\ outcome' # outcome) =>
          /\ outcome'.pos = i'
          /\ i' = i + 1
          /\ outcome'.pos = produced' - 1
          /\ outcome.op = "__iter__" => outcome'.pos = 0
     /\ (outcome'.op = "__next__" /\ outcome'.exc # "none") => i' = i]_vars

C8_Witness ==
  /\ outcome.op = "__next__"
  /\ outcome.exc = "StopIteration"
  /\ i = 3
  /\ produced = 4

\* An argument that is neither a mapping nor a string, or a string whose
\* extension is neither .json nor .yaml.
BadArg(a) == a.type = "other" \/ (a.type = "str" /\ a.ext \notin {"json", "yaml"})

C10_OneParameterSet ==
  Returned =>
    /\ outcome.ref = parameters
    /\ DOMAIN heap = {parameters}
    /\ CallerRef \in DOMAIN heap => outcome.ref = CallerRef
    /\ held # 0 => (held = outcome.ref /\ Shows(heap[held]))

C10_Witness ==
  /\ Returned
  /\ held = CallerRef
  /\ outcome.pos >= 1
  /\ Shows(heap[held])

\* The keys the selected values of the axes assign.
SelectedKeys == UNION {Writes(p) : p \in DOMAIN grid}

\* C11: a key that the selected value of no axis assigns keeps, in the
\* returned combination, the value it had before the call: what an earlier
\* group value assigned persists and does not revert to the base default.
C11_GroupValuesPersist ==
  [][Returned' =>
       \A k \in DOMAIN heap[parameters] :
         k \notin SelectedKeys' => heap'[parameters'][k] = heap[parameters][k]]_vars

C11_Witness ==
  /\ Returned
  /\ \E p \in DOMAIN grid :
       /\ grid[p].key = "g"
       /\ idx[p] = 1
       /\ "y" \in DOMAIN grid[p].vals[1].items
       /\ heap[outcome.ref]["y"] = grid[p].vals[1].items["y"]
  /\ "y" \notin SelectedKeys
  /\ heap[outcome.ref]["y"] # Base["y"]

\* C14: once __next__ has raised StopIteration, no further __next__ returns a
\* combination until the next __iter__, so that no more than L1 * ... * Ln
\* combinations are returned since the last __iter__.
C14_StickyExhaustion ==
  (pc = "iterating" /\ stopped) =>
    /\ ~Returned
    /\ produced <= Capacity(grid)

\* C15: a parameter that is neither a plain axis key nor a key of a group
\* value of the grid always has its base value, and __iter__ and a __next__
\* that raises StopIteration change no parameter.
C15_OtherParametersUntouched ==
  [][parameters' # 0 =>
       /\ \A k \in BaseKeys \ NamedKeys(grid') : heap'[parameters'][k] = Base[k]
       /\ (outcome'.op = "__iter__" \/ outcome'.exc = "StopIteration") => heap' = heap]_vars

C15_Witness ==
  /\ outcome.op = "__next__" /\ outcome.exc = "StopIteration"
  /\ Len(grid) >= 2
  /\ produced = Capacity(grid)
  /\ heap[parameters] # Base
  /\ BaseKeys \ NamedKeys(grid) # {}
  /\ \A k \in BaseKeys \ NamedKeys(grid) : heap[parameters][k] = Base[k]

\* C16: when an axis of a grid with at least one axis has no candidate,
\* __len__ is 0 and the first __next__ after __iter__ raises StopIteration
\* and changes no parameter, wherever the empty axis is declared.
C16_EmptyAxisTerminates ==
  [][(pc' = "iterating" /\ Len(grid') >= 1 /\ ~NoEmptyAxis(grid')) =>
       /\ GridLen(lengths') = 0
       /\ (outcome.op = "__iter__" /\ outcome'.op = "__next__") =>
            (outcome'.exc = "StopIteration" /\ heap' = heap)]_vars

\* C12: with an integer seed, __exit__ leaves the generators of random,
\* numpy.random and torch, and of the selected CUDA device when the device
\* starts with 'cuda', in the states they had just before __enter__, whatever
\* was drawn in between; with seed None, __enter__ and __exit__ change no
\* generator state.
C12_StatesRestored ==
  [][/\ (rpc = "inside" /\ rpc' = "outside" /\ ~seed.isNone) =>
          /\ rng'.rd = before.rd
          /\ rng'.np = before.np
          /\ rng'.tr = before.tr
          /\ startswith_cuda(device) => rng'.cuda[device] = before.cuda[device]
     /\ (seed.isNone /\ rpc' # rpc) => rng' = rng]_vars

C12_Witness ==
  /\ rpc = "outside"
  /\ draws = MaxDraws
  /\ ~seed.isNone
  /\ device = "cuda:0"
  /\ rng.rd = before.rd /\ rng.np = before.np /\ rng.tr = before.tr
  /\ rng.cuda[device] = before.cuda[device]
  /\ \A v \in {rng.rd, rng.np, rng.tr, rng.cuda[device]} : v # Seeded(seed.val)

\* C13: get_last_similar returns the path, in the parent directory, of the
\* greatest name in sorted order among the entries that start with the
\* experiment name, whatever the order of the directory listing.
C13_LastSimilarIsGreatest ==
  (dpc = "called" /\ \E p \in DOMAIN listing : startswith(listing[p], ExperimentName)) =>
    /\ lastSimilar.exc = "none"
    /\ \E p \in DOMAIN listing :
         /\ startswith(listing[p], ExperimentName)
         /\ lastSimilar.path = JoinParent(listing[p])
         /\ \A q \in DOMAIN listing :
              startswith(listing[q], ExperimentName) => ~StrLess(listing[p], listing[q])

====
